---- MODULE Spec2Model ----
(***************************************************************************)
(* A model of gcal-audit (src/gcal/audit.py, with its earlier variants     *)
(* src/gcal/analyze.py and src/analyze.py): the tag extraction, the        *)
(* per-category aggregation, the window resolver and the audit drivers.    *)
(*                                                                         *)
(* Strings are sequences of tokens.  The literal "[Tags:" is one token, a   *)
(* bracket, a comma, a blank and a newline are one token each, and a word  *)
(* ("W", "Work") is a run of characters the program never looks inside.    *)
(* No tokens concatenate to "[Tags:", so the regular expression of the     *)
(* source sees the same matches on the tokens as on the characters.        *)
(***************************************************************************)
EXTENDS Integers, Sequences, FiniteSets, TLC

VARIABLES
    pc,                    \* position of the run
    option,                \* the menu choice read by audit()
    audit_first_tag_only,  \* GCalAuditor._audit_first_tag_only
    total_duration,        \* GCalAuditor._total_duration
    start_datetime,        \* the resolved window's start
    end_datetime,          \* the resolved window's end
    calendar,              \* the events held by the remote calendar
    fetch_ok,              \* whether the remote list call succeeds
    events,                \* the value query_events returned
    queries,               \* the intervals sent to the remote calendar, in order
    cur_datetime,          \* audit_week's loop variable
    cur_events,            \* audit_week's per-day selection
    categories,            \* the last mapping categorize_events returned
    output,                \* what has been printed, in order
    event,                 \* argument of extract_event_categories
    event_types            \* value extract_event_categories returned

vars == <<pc, option, audit_first_tag_only, total_duration, start_datetime,
          end_datetime, calendar, fetch_ok, events, queries, cur_datetime,
          cur_events, categories, output, event, event_types>>

(***************************************************************************)
(* Bounds of the model.                                                    *)
(***************************************************************************)
MaxDescLen == 5      \* longest description enumerated for the extraction
MaxEvents == 2       \* longest event list enumerated for the aggregation
MaxCalendar == 3     \* most events held by the remote calendar
MaxRetries == 1      \* most invalid menu choices before a valid one

(***************************************************************************)
(* Program constants.                                                      *)
(***************************************************************************)
SECS_IN_DAY == 86400
SECS_IN_MINUTE == 60
MINUTES_IN_HOUR == 60

(***************************************************************************)
(* Strings.                                                                *)
(***************************************************************************)
TAGOPEN == "[Tags:"
RBRACKET == "]"
COMMA == ","
SPACE == " "
NEWLINE == "\n"

Whitespace == {SPACE, NEWLINE}

RECURSIVE SeqsUpTo(_, _)
SeqsUpTo(S, n) ==
    IF n = 0 THEN {<<>>}
    ELSE LET shorter == SeqsUpTo(S, n - 1)
         IN  shorter \cup {Append(s, x) : s \in {t \in shorter : Len(t) = n - 1}, x \in S}

SetMin(S) == CHOOSE x \in S : \A y \in S : x <= y

\* str.strip(): leading and trailing whitespace removed.
RECURSIVE str_lstrip(_)
str_lstrip(s) ==
    IF s = <<>> THEN s
    ELSE IF Head(s) \in Whitespace THEN str_lstrip(Tail(s)) ELSE s

RECURSIVE str_rstrip(_)
str_rstrip(s) ==
    IF s = <<>> THEN s
    ELSE IF s[Len(s)] \in Whitespace THEN str_rstrip(SubSeq(s, 1, Len(s) - 1)) ELSE s

str_strip(s) == str_rstrip(str_lstrip(s))

\* str.split(","): the pieces between the commas, always at least one piece.
RECURSIVE str_split(_)
str_split(s) ==
    LET commas == {i \in 1..Len(s) : s[i] = COMMA}
    IN  IF commas = {} THEN <<s>>
        ELSE LET i == SetMin(commas)
             IN  <<SubSeq(s, 1, i - 1)>> \o str_split(SubSeq(s, i + 1, Len(s)))

\* Where the lazy group (.*?) of r"\[Tags:(.*?)\]" ends for a match that starts at
\* token i: the first "]" after i, unless a newline comes before it ("." does not
\* match a newline); 0 when there is no match starting at i.
re_match_end(s, i) ==
    LET closes == {j \in (i + 1)..Len(s) : s[j] = RBRACKET}
    IN  IF closes = {} THEN 0
        ELSE LET j == SetMin(closes)
             IN  IF \E k \in (i + 1)..(j - 1) : s[k] = NEWLINE THEN 0 ELSE j

\* re.findall(r"\[Tags:(.*?)\]", s): the groups of the non-overlapping matches,
\* leftmost first, scanning from token pos.
RECURSIVE re_findall_from(_, _)
re_findall_from(s, pos) ==
    IF pos > Len(s) THEN <<>>
    ELSE IF s[pos] = TAGOPEN /\ re_match_end(s, pos) # 0
         THEN <<SubSeq(s, pos + 1, re_match_end(s, pos) - 1)>>
                  \o re_findall_from(s, re_match_end(s, pos) + 1)
         ELSE re_findall_from(s, pos + 1)

re_findall(s) == re_findall_from(s, 1)

(***************************************************************************)
(* extract_event_categories                                                *)
(***************************************************************************)
Truthy(flag) == flag = "True"

extract_last_match(ev, first_only) ==
    IF ~ev.has_description THEN <<ev.summary>>
    ELSE LET matches == re_findall(ev.description)
         IN  IF matches = <<>> THEN <<ev.summary>>
             ELSE LET parts == str_split(matches[Len(matches)])
                  IN  IF Truthy(first_only) THEN <<str_strip(parts[1])>>
                      ELSE [i \in 1..Len(parts) |-> str_strip(parts[i])]

extract_event_categories(ev, first_only) ==
    IF ~ev.has_description THEN <<ev.summary>>
    ELSE LET matches == re_findall(ev.description)
         IN  IF matches = <<>> THEN <<ev.summary>>
             ELSE LET parts == str_split(matches[1])
                  IN  IF Truthy(first_only) THEN <<str_strip(parts[1])>>
                      ELSE [i \in 1..Len(parts) |-> str_strip(parts[i])]

(***************************************************************************)
(* datetime: a record of the calendar fields.  Every timestamp the program *)
(* builds carries the same fixed offset, so the offset is left out.        *)
(***************************************************************************)
DT(y, mo, d, h, mi, s) ==
    [year |-> y, month |-> mo, day |-> d, hour |-> h, minute |-> mi, second |-> s]

NoDatetime == DT(0, 0, 0, 0, 0, 0)

IsLeap(y) == (y % 4 = 0) /\ ((y % 100 # 0) \/ (y % 400 = 0))

DaysInMonth(y, m) ==
    IF m = 2 THEN (IF IsLeap(y) THEN 29 ELSE 28)
    ELSE IF m \in {4, 6, 9, 11} THEN 30 ELSE 31

RECURSIVE DaysBeforeMonth(_, _)
DaysBeforeMonth(y, m) ==
    IF m = 1 THEN 0 ELSE DaysBeforeMonth(y, m - 1) + DaysInMonth(y, m - 1)

DaysBeforeYear(y) ==
    (y - 1) * 365 + ((y - 1) \div 4) - ((y - 1) \div 100) + ((y - 1) \div 400)

\* date.toordinal()
ToOrdinal(dt) == DaysBeforeYear(dt.year) + DaysBeforeMonth(dt.year, dt.month) + dt.day

SecondOfDay(dt) == (dt.hour * MINUTES_IN_HOUR + dt.minute) * SECS_IN_MINUTE + dt.second

\* (a - b).total_seconds()
total_seconds(a, b) ==
    (ToOrdinal(a) - ToOrdinal(b)) * SECS_IN_DAY + (SecondOfDay(a) - SecondOfDay(b))

\* a <= b on datetimes
DatetimeLeq(a, b) ==
    \/ ToOrdinal(a) < ToOrdinal(b)
    \/ ToOrdinal(a) = ToOrdinal(b) /\ SecondOfDay(a) <= SecondOfDay(b)

NextDay(dt) ==
    IF dt.day < DaysInMonth(dt.year, dt.month) THEN [dt EXCEPT !.day = dt.day + 1]
    ELSE IF dt.month < 12 THEN [dt EXCEPT !.day = 1, !.month = dt.month + 1]
    ELSE [dt EXCEPT !.day = 1, !.month = 1, !.year = dt.year + 1]

\* dt + timedelta(days=n), n >= 0
RECURSIVE timedelta_days(_, _)
timedelta_days(dt, n) == IF n = 0 THEN dt ELSE timedelta_days(NextDay(dt), n - 1)

\* datetime.weekday(): Monday is 0 (ordinal 1 is a Monday)
weekday(dt) == (ToOrdinal(dt) + 6) % 7

DAYS_OF_WEEK ==
    <<"Monday", "Tuesday", "Wednesday", "Thursday", "Friday", "Saturday", "Sunday">>

(***************************************************************************)
(* categorize_events.  A dict is the sequence of its items in insertion    *)
(* order.                                                                  *)
(***************************************************************************)
Item(k, v) == [event_type |-> k, seconds |-> v]

dict_keys(d) == {d[i].event_type : i \in 1..Len(d)}

dict_get_default_only(d, k, default) == default

dict_get(d, k, default) ==
    IF k \in dict_keys(d)
    THEN (CHOOSE it \in {d[i] : i \in 1..Len(d)} : it.event_type = k).seconds
    ELSE default

\* d.update({k: v}): an existing key keeps its place, a new key goes last.
dict_update(d, k, v) ==
    IF k \in dict_keys(d)
    THEN [i \in 1..Len(d) |-> IF d[i].event_type = k THEN Item(k, v) ELSE d[i]]
    ELSE Append(d, Item(k, v))

event_duration(ev) == total_seconds(ev.end, ev.start)

add_event_types_first_only(durations, types, dur) ==
    IF types = <<>> THEN durations
    ELSE dict_update(durations, Head(types), dict_get(durations, Head(types), 0) + dur)

\* The inner loop: for event_type in event_types.
RECURSIVE add_event_types(_, _, _)
add_event_types(durations, types, dur) ==
    IF types = <<>> THEN durations
    ELSE add_event_types(
             dict_update(durations, Head(types), dict_get(durations, Head(types), 0) + dur),
             Tail(types), dur)

\* The outer loop: for event in events.
RECURSIVE accumulate(_, _, _)
accumulate(durations, evs, first_only) ==
    IF evs = <<>> THEN durations
    ELSE accumulate(
             add_event_types(durations,
                             extract_event_categories(Head(evs), first_only),
                             event_duration(Head(evs))),
             Tail(evs), first_only)

insert_desc_unstable(sorted, it) ==
    LET before == {i \in 1..Len(sorted) : sorted[i].seconds > it.seconds}
        n == Cardinality(before)
    IN  SubSeq(sorted, 1, n) \o <<it>> \o SubSeq(sorted, n + 1, Len(sorted))

\* sorted(items, key=value, reverse=True): stable, so an item goes after every
\* item whose value is greater or equal.
insert_desc(sorted, it) ==
    LET before == {i \in 1..Len(sorted) : sorted[i].seconds >= it.seconds}
        n == Cardinality(before)
    IN  SubSeq(sorted, 1, n) \o <<it>> \o SubSeq(sorted, n + 1, Len(sorted))

RECURSIVE sort_into(_, _)
sort_into(sorted, items) ==
    IF items = <<>> THEN sorted
    ELSE sort_into(insert_desc(sorted, Head(items)), Tail(items))

sorted_unsorted(items) == items

sorted_desc(items) == sort_into(<<>>, items)

categorize_events(evs, first_only) == sorted_desc(accumulate(<<>>, evs, first_only))

(***************************************************************************)
(* Events.                                                                 *)
(***************************************************************************)
Event(summary, has_description, description, start, end) ==
    [summary |-> summary, has_description |-> has_description,
     description |-> description, start |-> start, end |-> end]

NoEvent == Event(<<>>, FALSE, <<>>, NoDatetime, NoDatetime)

\* The value of a variable holding a list of events, or None.
EventsNone == [none |-> TRUE, items |-> <<>>]
EventsList(s) == [none |-> FALSE, items |-> s]

Flags == {"True", "False"}

(***************************************************************************)
(* Specification SpecExtract: extract_event_categories, and                *)
(* categorize_events on the one event, applied to every description of at  *)
(* most MaxDescLen tokens.                                                 *)
(***************************************************************************)
Alphabet == {TAGOPEN, RBRACKET, COMMA, SPACE, NEWLINE, "W", "M"}

Descriptions == SeqsUpTo(Alphabet, MaxDescLen)

ExtractInputs ==
    {Event(<<"S">>, FALSE, <<>>, DT(2024, 1, 30, 9, 0, 0), DT(2024, 1, 30, 10, 0, 0))}
    \cup {Event(<<"S">>, TRUE, d, DT(2024, 1, 30, 9, 0, 0), DT(2024, 1, 30, 10, 0, 0)) :
             d \in Descriptions}

Idle ==
    /\ option = "" /\ total_duration = <<>>
    /\ start_datetime = NoDatetime /\ end_datetime = NoDatetime
    /\ calendar = {} /\ fetch_ok = TRUE /\ queries = <<>>
    /\ cur_datetime = NoDatetime /\ cur_events = <<>>
    /\ output = <<>>

InitExtract ==
    /\ Idle
    /\ pc = "extract_call"
    /\ audit_first_tag_only \in Flags
    /\ event \in ExtractInputs
    /\ events = EventsList(<<event>>)
    /\ event_types = <<>>
    /\ categories = <<>>

ExtractCall ==
    /\ pc = "extract_call"
    /\ event_types' = extract_event_categories(event, audit_first_tag_only)
    /\ pc' = "extract_return"
    /\ UNCHANGED <<option, audit_first_tag_only, total_duration, start_datetime,
                   end_datetime, calendar, fetch_ok, events, cur_datetime, cur_events,
                   categories, output, event,
                   queries>>

CategorizeOne ==
    /\ pc = "extract_return"
    /\ categories' = categorize_events(events.items, audit_first_tag_only)
    /\ pc' = "categorize_return"
    /\ UNCHANGED <<option, audit_first_tag_only, total_duration, start_datetime,
                   end_datetime, calendar, fetch_ok, events, cur_datetime, cur_events,
                   output, event, event_types,
                   queries>>

NextExtract == ExtractCall \/ CategorizeOne

SpecExtract == InitExtract /\ [][NextExtract]_vars

(***************************************************************************)
(* Specification SpecCategorize: categorize_events applied to every list   *)
(* of at most MaxEvents events of a pool.                                  *)
(***************************************************************************)
PoolSummaries == {<<"W">>, <<"S">>}

PoolDescriptions ==
    {<<TAGOPEN, "W", RBRACKET>>,
     <<TAGOPEN, SPACE, "W", COMMA, SPACE, "M", RBRACKET>>,
     <<TAGOPEN, "M", COMMA, "W", RBRACKET>>,
     <<TAGOPEN, "W", COMMA, "W", RBRACKET>>,
     <<TAGOPEN, RBRACKET>>}

PoolStart == DT(2024, 1, 30, 9, 0, 0)

PoolEnds ==
    {DT(2024, 1, 30, 8, 0, 0), DT(2024, 1, 30, 9, 0, 0),
     DT(2024, 1, 30, 10, 0, 0), DT(2024, 1, 30, 11, 0, 0)}

EventPool ==
    {Event(s, FALSE, <<>>, PoolStart, e) : s \in PoolSummaries, e \in PoolEnds}
    \cup {Event(<<"S">>, TRUE, d, PoolStart, e) : d \in PoolDescriptions, e \in PoolEnds}

InitCategorize ==
    /\ Idle
    /\ pc = "categorize_call"
    /\ audit_first_tag_only \in Flags
    /\ event = NoEvent
    /\ event_types = <<>>
    /\ events \in {EventsList(s) : s \in SeqsUpTo(EventPool, MaxEvents)}
    /\ categories = <<>>

CategorizeCall ==
    /\ pc = "categorize_call"
    /\ categories' = categorize_events(events.items, audit_first_tag_only)
    /\ pc' = "categorize_return"
    /\ UNCHANGED <<option, audit_first_tag_only, total_duration, start_datetime,
                   end_datetime, calendar, fetch_ok, events, cur_datetime, cur_events,
                   output, event, event_types,
                   queries>>

NextCategorize == CategorizeCall

SpecCategorize == InitCategorize /\ [][NextCategorize]_vars

(***************************************************************************)
(* Properties of categorize_events (SpecCategorize).                       *)
(***************************************************************************)
Flag == audit_first_tag_only

TypesOf(ev) == extract_event_categories(ev, Flag)

Occurrences(types, k) == Cardinality({i \in 1..Len(types) : types[i] = k})

RECURSIVE SumOver(_, _, _)
SumOver(F(_), evs, i) ==
    IF i > Len(evs) THEN 0 ELSE F(evs[i]) + SumOver(F, evs, i + 1)

ExpectedTotal(evs, k) ==
    LET Share(ev) == Occurrences(TypesOf(ev), k) * event_duration(ev)
    IN  SumOver(Share, evs, 1)

LabelsOf(evs) == UNION {{TypesOf(evs[i])[j] : j \in 1..Len(TypesOf(evs[i]))} : i \in 1..Len(evs)}

Returned == pc = "categorize_return"

\* C1: the report's keys are exactly the labels of the events' category lists, each
\* once, and a key's value is the sum, over the events and over every occurrence of
\* the label in an event's list, of the event's whole duration.
C1_ReportIsPerCategorySum ==
    Returned =>
        /\ dict_keys(categories) = LabelsOf(events.items)
        /\ Cardinality(dict_keys(categories)) = Len(categories)
        /\ \A i \in 1..Len(categories) :
               categories[i].seconds = ExpectedTotal(events.items, categories[i].event_type)

C1_Witness ==
    /\ Returned
    /\ Len(events.items) = 2
    /\ Len(TypesOf(events.items[1])) = 2
    /\ \E i \in 1..Len(categories) : categories[i].seconds = 10800
    /\ \E i \in 1..Len(categories) : categories[i].seconds = 3600

RECURSIVE SumValues(_)
SumValues(d) == IF d = <<>> THEN 0 ELSE Head(d).seconds + SumValues(Tail(d))

SumDurations(evs) == SumOver(event_duration, evs, 1)

WellFormed(evs) == \A i \in 1..Len(evs) : event_duration(evs[i]) >= 0

\* C2 as stated: for a non-empty event list the report's values sum to at least the
\* sum of the event durations, with equality iff every event has exactly one category.
\* It is read here in its most favourable way, over events of non-negative duration
\* only (the spec's NormalizedEvent), and fails even so.
C2_SumAtLeastDurations_Original ==
    (Returned /\ events.items # <<>> /\ WellFormed(events.items)) =>
        /\ SumValues(categories) >= SumDurations(events.items)
        /\ (SumValues(categories) = SumDurations(events.items))
               <=> (\A i \in 1..Len(events.items) : Len(TypesOf(events.items[i])) = 1)

\* C2 as amended: when no event ends before it starts, the values sum to at least
\* the sum of the durations, with equality iff every event of non-zero duration has
\* exactly one category.
C2_SumAtLeastDurations ==
    (Returned /\ events.items # <<>> /\ WellFormed(events.items)) =>
        /\ SumValues(categories) >= SumDurations(events.items)
        /\ (SumValues(categories) = SumDurations(events.items))
               <=> (\A i \in 1..Len(events.items) :
                        event_duration(events.items[i]) # 0
                            => Len(TypesOf(events.items[i])) = 1)

C2_Witness ==
    /\ Returned
    /\ Len(events.items) = 2
    /\ event_duration(events.items[1]) = 0
    /\ Len(TypesOf(events.items[1])) = 2
    /\ event_duration(events.items[2]) > 0
    /\ SumValues(categories) = SumDurations(events.items)

\* C5: read in iteration order, the report never increases: each entry's duration
\* is at least the next entry's.
C5_ReportDescending ==
    Returned =>
        \A i \in 1..(Len(categories) - 1) :
            categories[i].seconds >= categories[i + 1].seconds

C5_Witness ==
    /\ Returned
    /\ Len(categories) = 3
    /\ categories[1].seconds > categories[3].seconds
    /\ accumulate(<<>>, events.items, Flag)[3].seconds = categories[1].seconds
    /\ categories # accumulate(<<>>, events.items, Flag)

\* The category lists of the events, one after the other.
RECURSIVE Flattened(_)
Flattened(evs) == IF evs = <<>> THEN <<>> ELSE TypesOf(Head(evs)) \o Flattened(Tail(evs))

FirstEncounter(evs, k) == SetMin({j \in 1..Len(Flattened(evs)) : Flattened(evs)[j] = k})

\* C6: two categories of equal duration stand in the order in which the scan of the
\* events (and of each event's category list) first met them.
C6_TiesKeepFirstEncounterOrder ==
    Returned =>
        \A i, j \in 1..Len(categories) :
            (i < j /\ categories[i].seconds = categories[j].seconds) =>
                FirstEncounter(events.items, categories[i].event_type)
                    < FirstEncounter(events.items, categories[j].event_type)

C6_Witness ==
    /\ Returned
    /\ Len(categories) = 3
    /\ categories[1].seconds > categories[2].seconds
    /\ categories[2].seconds = categories[3].seconds
    /\ categories # accumulate(<<>>, events.items, Flag)

(***************************************************************************)
(* Properties of extract_event_categories (SpecExtract).  The tag block is *)
(* described here by its shape, independently of re_findall.               *)
(***************************************************************************)
BlockAt(d, i, j) ==
    /\ i < j
    /\ d[i] = TAGOPEN
    /\ d[j] = RBRACKET
    /\ \A k \in (i + 1)..(j - 1) : d[k] \notin {RBRACKET, NEWLINE}

BlockStarts(d) == {i \in 1..Len(d) : \E j \in 1..Len(d) : BlockAt(d, i, j)}

HasBlock(ev) == ev.has_description /\ BlockStarts(ev.description) # {}

FirstBlockBody(d) ==
    LET i == SetMin(BlockStarts(d))
        j == CHOOSE j \in 1..Len(d) : BlockAt(d, i, j)
    IN  SubSeq(d, i + 1, j - 1)

Trimmed(s) ==
    LET solid == {i \in 1..Len(s) : s[i] \notin Whitespace}
    IN  IF solid = {} THEN <<>>
        ELSE SubSeq(s, SetMin(solid), CHOOSE i \in solid : \A k \in solid : k <= i)

\* The pieces of a block's body between its commas, trimmed.
BlockLabels(body) ==
    LET commas == {i \in 1..Len(body) : body[i] = COMMA}
        n == Cardinality(commas) + 1
        Cut(k) == IF k = 0 THEN 0
                  ELSE IF k = n THEN Len(body) + 1
                  ELSE CHOOSE c \in commas : Cardinality({x \in commas : x < c}) = k - 1
    IN  [k \in 1..n |-> Trimmed(SubSeq(body, Cut(k - 1) + 1, Cut(k) - 1))]

Extracted == pc \in {"extract_return", "categorize_return"} /\ event # NoEvent

NoLabels(ev) ==
    \A k \in 1..Len(BlockLabels(FirstBlockBody(ev.description))) :
        BlockLabels(FirstBlockBody(ev.description))[k] = <<>>

\* C3: the result is [summary] when the event has no description, when the
\* description has no tag block, and when the first tag block yields no label once
\* split and trimmed; so every result is non-empty and holds non-empty strings only.
C3_FallsBackToSummary ==
    Extracted =>
        /\ (~HasBlock(event) \/ NoLabels(event)) => event_types = <<event.summary>>
        /\ event_types # <<>>
        /\ \A i \in 1..Len(event_types) : event_types[i] # <<>>

\* The part of C3 the code does satisfy, kept as a regression property of the model:
\* without a description or without a tag block the result is [summary], and the
\* result is never the empty list.
C3_FallbackWithoutBlock ==
    Extracted =>
        /\ ~HasBlock(event) => event_types = <<event.summary>>
        /\ event_types # <<>>

ProperLabels(ev) ==
    /\ HasBlock(ev)
    /\ \A k \in 1..Len(BlockLabels(FirstBlockBody(ev.description))) :
           BlockLabels(FirstBlockBody(ev.description))[k] # <<>>

\* C4: for an event whose first tag block carries the labels L1..Ln and whose
\* duration is D, the result is L1..Ln and the event adds D to each of them (once
\* per occurrence) when first_tag_only is unset; it is [L1], and the event adds D to
\* L1 alone, when first_tag_only is set.  Later tag blocks never matter.
C4_FirstBlockDecidesLabels ==
    LET labels == BlockLabels(FirstBlockBody(event.description))
        D == event_duration(event)
    IN  (Extracted /\ ProperLabels(event)) =>
            /\ Truthy(Flag) => event_types = <<labels[1]>>
            /\ ~Truthy(Flag) => event_types = labels
            /\ pc = "categorize_return" =>
                   /\ Truthy(Flag) => categories = <<Item(labels[1], D)>>
                   /\ ~Truthy(Flag) =>
                          /\ dict_keys(categories) = {labels[k] : k \in 1..Len(labels)}
                          /\ \A i \in 1..Len(categories) :
                                 categories[i].seconds
                                     = D * Occurrences(labels, categories[i].event_type)

\* Two tag blocks, of which the first one alone decides.
C4_Witness ==
    /\ pc = "categorize_return"
    /\ ProperLabels(event)
    /\ Cardinality(BlockStarts(event.description)) = 2
    /\ re_findall(event.description) = << <<"W">>, <<>> >>
    /\ categories = <<Item(<<"W">>, 3600)>>

C4_WitnessAllTags ==
    /\ pc = "categorize_return"
    /\ ~Truthy(Flag)
    /\ event.description = <<TAGOPEN, "W", COMMA, "M", RBRACKET>>
    /\ categories = <<Item(<<"W">>, 3600), Item(<<"M">>, 3600)>>

(***************************************************************************)
(* The window resolver (DateInputter).  A date string "YYYY-MM-DD" is the  *)
(* triple of its numbers, a time string "HH:MM" the pair of its numbers,   *)
(* and a blank input is the empty sequence.                                *)
(***************************************************************************)
Blank == <<>>

\* datetime.fromisoformat(f"{date}T{hh}:{mm}:{ss}-07:00")
fromisoformat(date, hhmm, ss) == DT(date[1], date[2], date[3], hhmm[1], hhmm[2], ss)

\* dt.strftime("%Y-%m-%d")
strftime_date(dt) == <<dt.year, dt.month, dt.day>>

\* datetime.fromisoformat(date): midnight of the date
fromisoformat_date(date) == DT(date[1], date[2], date[3], 0, 0, 0)

OrDefault(input, default) == IF input = Blank THEN default ELSE input

input_day(date_in, today) ==
    LET date == OrDefault(date_in, today)
    IN  <<fromisoformat(date, <<0, 0>>, 0), fromisoformat(date, <<23, 59>>, 59)>>

input_week(date_in, today) ==
    LET date == OrDefault(date_in, today)
        date_obj == timedelta_days(fromisoformat_date(date), 6)
    IN  <<fromisoformat(date, <<0, 0>>, 0),
          fromisoformat(strftime_date(date_obj), <<23, 59>>, 59)>>

input_datetime_range(start_date_in, start_time_in, end_date_in, end_time_in, today) ==
    LET start_date == OrDefault(start_date_in, today)
        start_time == OrDefault(start_time_in, <<0, 0>>)
        end_date == OrDefault(end_date_in, start_date)
        end_time == OrDefault(end_time_in, <<23, 59>>)
    IN  <<fromisoformat(start_date, start_time, 0), fromisoformat(end_date, end_time, 0)>>

(***************************************************************************)
(* The remote calendar.  events().list(timeMin, timeMax, singleEvents,     *)
(* orderBy="startTime") answers with the events that end after timeMin and *)
(* start before timeMax, by ascending start; it refuses an empty range     *)
(* (timeMax not after timeMin) with an HTTP error.                         *)
(***************************************************************************)
DatetimeLt(a, b) == ~DatetimeLeq(b, a)

Matching(cal, time_min, time_max) ==
    {e \in cal : DatetimeLt(time_min, e.end) /\ DatetimeLt(e.start, time_max)}

\* The orders in which the service may list a set of events.
Listings(S) ==
    {s \in [1..Cardinality(S) -> S] :
        /\ \A i, j \in 1..Cardinality(S) : i # j => s[i] # s[j]
        /\ \A i \in 1..(Cardinality(S) - 1) : DatetimeLeq(s[i].start, s[i + 1].start)}

\* timeMin=start_datetime.strftime("%Y-%m-%d") + "T00:00:00-07:00"
time_min(start) == fromisoformat(strftime_date(start), <<0, 0>>, 0)

time_max_midnight(end) == fromisoformat(strftime_date(end), <<0, 0>>, 0)

\* timeMax=end_datetime.strftime("%Y-%m-%d") + "T23:59:59-07:00"
time_max(end) == fromisoformat(strftime_date(end), <<23, 59>>, 59)

\* One call of events().list, by the interval it asks for.
Query(lo, hi) == [time_min |-> lo, time_max |-> hi]

(***************************************************************************)
(* print_analysis                                                          *)
(***************************************************************************)
Abs(x) == IF x < 0 THEN -x ELSE x

\* One decimal digit of a long division: <<digit, remainder>>.
DivStep(rem, den) == <<(rem * 10) \div den, (rem * 10) % den>>

\* The hundredths of round((seconds / total) * 100, 2), for total # 0, as the
\* quotient rounded half to even; truncate leaves the rounding out.
PercentHundredthsOf(seconds, total, truncate) ==
    LET num == Abs(seconds)
        den == Abs(total)
        s1 == DivStep(num % den, den)
        s2 == DivStep(s1[2], den)
        s3 == DivStep(s2[2], den)
        s4 == DivStep(s3[2], den)
        low == (num \div den) * 10000 + s1[1] * 1000 + s2[1] * 100 + s3[1] * 10 + s4[1]
        up == ~truncate /\ (2 * s4[2] > den \/ (2 * s4[2] = den /\ low % 2 = 1))
        mag == IF up THEN low + 1 ELSE low
    IN  IF (seconds < 0) = (total < 0) THEN mag ELSE -mag

PercentHundredths_truncated(seconds, total) == PercentHundredthsOf(seconds, total, TRUE)

PercentHundredths(seconds, total) == PercentHundredthsOf(seconds, total, FALSE)

\* f"{x:.2f}": the sign, the whole part and exactly two decimals.
format_2f(hundredths) ==
    [negative |-> hundredths < 0,
     whole |-> Abs(hundredths) \div 100,
     decimals |-> <<(Abs(hundredths) % 100) \div 10, Abs(hundredths) % 10>>]

\* f"{int(hours)}:{int(minutes):02d}"
format_duration(seconds) ==
    LET minutes == seconds \div SECS_IN_MINUTE
    IN  [hours |-> minutes \div MINUTES_IN_HOUR, minutes |-> minutes % MINUTES_IN_HOUR]

Row(label, seconds, total) ==
    [event_type |-> label, seconds |-> seconds, duration |-> format_duration(seconds),
     percent_of_total |-> format_2f(PercentHundredths(seconds, total))]

Table_total_always(cats, total, first_only) ==
    [kind |-> "table",
     rows |-> [i \in 1..Len(cats) |-> Row(cats[i].event_type, cats[i].seconds, total)],
     total_row |-> <<Row(<<"Total">>, SumValues(cats), total)>>,
     denominator |-> total]

\* The table print_analysis prints: the category rows, the Total row when
\* first_tag_only is set, and the denominator the percentages were taken of.
Table(cats, total, first_only) ==
    [kind |-> "table",
     rows |-> [i \in 1..Len(cats) |-> Row(cats[i].event_type, cats[i].seconds, total)],
     total_row |-> IF Truthy(first_only)
                   THEN <<Row(<<"Total">>, SumValues(cats), total)>>
                   ELSE <<>>,
     denominator |-> total]

\* What print_analysis raises, if anything: max() of an empty mapping comes first,
\* then the division by an unset or a zero denominator.
print_analysis_exception(cats, total_opt) ==
    IF cats = <<>> THEN "ValueError"
    ELSE IF total_opt = <<>> THEN "TypeError"
    ELSE IF total_opt = <<0>> THEN "ZeroDivisionError"
    ELSE "none"

print_analysis_raises(cats, total_opt) == print_analysis_exception(cats, total_opt) # "none"

NoEventsFound(a, b) == [kind |-> "no_events", start |-> a, end |-> b]
NoEventsFoundDay(d) == [kind |-> "no_events_day", date |-> d]
DayHeader(d) == [kind |-> "day", weekday |-> DAYS_OF_WEEK[weekday(d) + 1], date |-> strftime_date(d)]
FlagLine(f) == [kind |-> "flag", value |-> f]
InvalidOption == [kind |-> "invalid_option"]

(***************************************************************************)
(* Specification Spec: one run of GCalAuditor.audit().                     *)
(***************************************************************************)
Dates == {<<2024, 1, 30>>, <<2024, 1, 31>>}

Times == {<<9, 0>>, <<10, 0>>}

\* The events a user's calendar may hold.
Standup ==
    Event(<<"Standup">>, FALSE, <<>>, DT(2024, 1, 30, 9, 0, 0), DT(2024, 1, 30, 10, 0, 0))

Coding ==
    Event(<<"Coding">>, TRUE, <<TAGOPEN, SPACE, "Work", RBRACKET>>,
          DT(2024, 1, 30, 10, 0, 0), DT(2024, 1, 30, 12, 0, 0))

Review ==
    Event(<<"Review">>, TRUE, <<TAGOPEN, SPACE, "Work", COMMA, SPACE, "Meetings", RBRACKET>>,
          DT(2024, 2, 1, 14, 0, 0), DT(2024, 2, 1, 15, 0, 0))

Retreat ==
    Event(<<"Retreat">>, FALSE, <<>>, DT(2023, 12, 30, 10, 0, 0), DT(2024, 1, 30, 8, 0, 0))

Travel ==
    Event(<<"Travel">>, TRUE, <<"Trip", SPACE, TAGOPEN, "Travel", RBRACKET>>,
          DT(2024, 1, 28, 20, 0, 0), DT(2024, 1, 30, 6, 0, 0))

CalendarPool == {Standup, Coding, Review, Retreat, Travel}

Calendars == {c \in SUBSET CalendarPool : Cardinality(c) <= MaxCalendar}

Init ==
    /\ pc = "audit"
    /\ option = ""
    /\ audit_first_tag_only = "None"
    /\ total_duration = <<>>
    /\ start_datetime = NoDatetime
    /\ end_datetime = NoDatetime
    /\ calendar \in Calendars
    /\ fetch_ok = TRUE
    /\ events = EventsList(<<>>)
    /\ queries = <<>>
    /\ cur_datetime = NoDatetime
    /\ cur_events = <<>>
    /\ categories = <<>>
    /\ output = <<>>
    /\ event = NoEvent
    /\ event_types = <<>>

\* audit(): the menu; an invalid choice prints a message and asks again.
Audit ==
    /\ pc = "audit"
    /\ \E choice \in {"1", "2", "3", "4"} :
        /\ option' = choice
        /\ IF choice \in {"1", "2", "3"}
           THEN pc' = "set_tag_option" /\ output' = output
           ELSE /\ Len(output) < MaxRetries
                /\ pc' = "audit"
                /\ output' = Append(output, InvalidOption)
    /\ UNCHANGED <<audit_first_tag_only, total_duration, start_datetime, end_datetime,
                   calendar, fetch_ok, events, cur_datetime, cur_events, categories,
                   event, event_types,
                   queries>>

str_lower(s) == IF s = "Y" THEN "y" ELSE IF s = "YES" THEN "yes" ELSE s

\* set_tag_option()
SetTagOption ==
    /\ pc = "set_tag_option"
    /\ \E answer \in {"y", "YES", "n", ""} :
        audit_first_tag_only' =
            IF str_lower(answer) \in {"yes", "y"} THEN "True" ELSE "False"
    /\ pc' = "input"
    /\ UNCHANGED <<option, total_duration, start_datetime, end_datetime, calendar,
                   fetch_ok, events, cur_datetime, cur_events, categories, output,
                   event, event_types,
                   queries>>

Resolved(window) ==
    /\ start_datetime' = window[1]
    /\ end_datetime' = window[2]
    /\ pc' = "query_events"
    /\ UNCHANGED <<option, audit_first_tag_only, total_duration, calendar, fetch_ok,
                   events, cur_datetime, cur_events, categories, event, event_types,
                   queries>>

\* audit_day(), up to the call of _audit
AuditDayInput ==
    /\ pc = "input" /\ option = "1"
    /\ \E date_in \in Dates \cup {Blank}, today \in Dates :
        Resolved(input_day(date_in, today))
    /\ output' = output

\* audit_week(), up to the call of query_events
AuditWeekInput ==
    /\ pc = "input" /\ option = "2"
    /\ \E date_in \in Dates \cup {Blank}, today \in Dates :
        Resolved(input_week(date_in, today))
    /\ output' = Append(output, FlagLine(audit_first_tag_only))

\* audit_datetime_range(), up to the call of _audit
AuditRangeInput ==
    /\ pc = "input" /\ option = "3"
    /\ \E start_date \in Dates \cup {Blank}, start_time \in Times \cup {Blank},
          end_date \in Dates \cup {Blank}, end_time \in Times \cup {Blank},
          today \in Dates :
        Resolved(input_datetime_range(start_date, start_time, end_date, end_time, today))
    /\ output' = output

\* query_events(): the denominator is set first; an HttpError is logged and the
\* function returns None.
QueryEvents ==
    /\ pc = "query_events"
    /\ total_duration' = <<total_seconds(end_datetime, start_datetime)>>
    /\ \E answered \in BOOLEAN :
        LET lo == time_min(start_datetime)
            hi == time_max(end_datetime)
        IN  /\ queries' = Append(queries, Query(lo, hi))
            /\ fetch_ok' = (answered /\ DatetimeLt(lo, hi))
            /\ IF fetch_ok'
               THEN \E listing \in Listings(Matching(calendar, lo, hi)) :
                        events' = EventsList(listing)
               ELSE events' = EventsNone
    /\ pc' = "queried"
    /\ UNCHANGED <<option, audit_first_tag_only, start_datetime, end_datetime, calendar,
                   cur_datetime, cur_events, categories, output, event, event_types>>

not_events_empty_list_only(evs) == ~evs.none /\ evs.items = <<>>

\* "if not events": None and the empty list are both falsy.
not_events(evs) == evs.none \/ evs.items = <<>>

\* _audit() and audit_week(): nothing to report.
NoEvents ==
    /\ pc = "queried"
    /\ not_events(events)
    /\ output' = Append(output, NoEventsFound(start_datetime, end_datetime))
    /\ pc' = "done"
    /\ UNCHANGED <<option, audit_first_tag_only, total_duration, start_datetime,
                   end_datetime, calendar, fetch_ok, events, cur_datetime, cur_events,
                   categories, event, event_types,
                   queries>>

\* categories = self.categorize_events(events); iterating None raises.
CategorizeEvents ==
    /\ pc = "queried"
    /\ ~not_events(events)
    /\ IF events.none
       THEN pc' = "TypeError" /\ categories' = categories
       ELSE /\ categories' = categorize_events(events.items, audit_first_tag_only)
            /\ pc' = "print_analysis"
    /\ UNCHANGED <<option, audit_first_tag_only, total_duration, start_datetime,
                   end_datetime, calendar, fetch_ok, events, cur_datetime, cur_events,
                   output, event, event_types,
                   queries>>

\* self.print_analysis(categories), for the whole window; audit_week goes on to its
\* loop over the days.
PrintAnalysis ==
    /\ pc = "print_analysis"
    /\ IF print_analysis_raises(categories, total_duration)
       THEN /\ pc' = print_analysis_exception(categories, total_duration)
            /\ output' = output /\ cur_datetime' = cur_datetime
       ELSE /\ output' = Append(output,
                                Table(categories, total_duration[1], audit_first_tag_only))
            /\ IF option = "2"
               THEN pc' = "week_loop" /\ cur_datetime' = start_datetime
               ELSE pc' = "done" /\ cur_datetime' = cur_datetime
    /\ UNCHANGED <<option, audit_first_tag_only, total_duration, start_datetime,
                   end_datetime, calendar, fetch_ok, events, cur_events, categories,
                   event, event_types,
                   queries>>

day_denominator_not_reset(previous) == previous

\* self._total_duration = SECS_IN_DAY
day_denominator(previous) == <<SECS_IN_DAY>>

\* event["start"]["dateTime"].day == cur_datetime.day
on_day(ev, cur) == ev.start.day = cur.day

no_cur_events_never(selected) == FALSE

\* "if not cur_events"
no_cur_events(selected) == selected = <<>>

\* One pass of audit_week's loop over the days.
WeekDay ==
    /\ pc = "week_loop"
    /\ DatetimeLeq(cur_datetime, end_datetime)
    /\ LET OnDay(ev) == on_day(ev, cur_datetime)
           selected == SelectSeq(events.items, OnDay)
           denominator == day_denominator(total_duration)
           report == categorize_events(selected, audit_first_tag_only)
       IN  /\ total_duration' = denominator
           /\ cur_events' = selected
           /\ IF no_cur_events(selected)
              THEN /\ output' = output \o <<DayHeader(cur_datetime),
                                            NoEventsFoundDay(cur_datetime)>>
                   /\ categories' = categories
                   /\ pc' = "week_loop"
              ELSE /\ categories' = report
                   /\ IF print_analysis_raises(report, denominator)
                      THEN /\ output' = Append(output, DayHeader(cur_datetime))
                           /\ pc' = print_analysis_exception(report, denominator)
                      ELSE /\ output' = output \o
                                  <<DayHeader(cur_datetime),
                                    Table(report, denominator[1], audit_first_tag_only)>>
                           /\ pc' = "week_loop"
    /\ cur_datetime' = timedelta_days(cur_datetime, 1)
    /\ UNCHANGED <<option, audit_first_tag_only, start_datetime, end_datetime, calendar,
                   fetch_ok, events, event, event_types,
                   queries>>

\* The loop ends when cur_datetime has passed end_datetime.
WeekDone ==
    /\ pc = "week_loop"
    /\ ~DatetimeLeq(cur_datetime, end_datetime)
    /\ pc' = "done"
    /\ UNCHANGED <<option, audit_first_tag_only, total_duration, start_datetime,
                   end_datetime, calendar, fetch_ok, events, cur_datetime, cur_events,
                   categories, output, event, event_types,
                   queries>>

Next ==
    \/ Audit
    \/ SetTagOption
    \/ AuditDayInput
    \/ AuditWeekInput
    \/ AuditRangeInput
    \/ QueryEvents
    \/ NoEvents
    \/ CategorizeEvents
    \/ PrintAnalysis
    \/ WeekDay
    \/ WeekDone

Spec == Init /\ [][Next]_vars

(***************************************************************************)
(* Properties of the audit run (Spec).                                     *)
(***************************************************************************)
IsReportLine(line) == line.kind # "invalid_option"

\* What the run printed, the menu's complaints left out.
Printed == SelectSeq(output, IsReportLine)

TableIndexes == {i \in 1..Len(Printed) : Printed[i].kind = "table"}

\* What audit_week printed after the whole-week table.
DailyPart ==
    IF TableIndexes = {} THEN <<>>
    ELSE SubSeq(Printed, SetMin(TableIndexes) + 1, Len(Printed))

DateOrdinal(date) == ToOrdinal(fromisoformat_date(date))

\* The k-th daily output (k from 0): the header of day start + k, then either a
\* table whose percentages are taken of 86400 seconds or the marker of that day.
DailyOutputOk(k) ==
    LET header == DailyPart[2 * k + 1]
        body == DailyPart[2 * k + 2]
    IN  /\ header.kind = "day"
        /\ DateOrdinal(header.date) = ToOrdinal(start_datetime) + k
        /\ \/ /\ body.kind = "table"
              /\ body.denominator = 86400
              /\ \A r \in 1..Len(body.rows) :
                     body.rows[r].percent_of_total
                         = format_2f(PercentHundredths(body.rows[r].seconds, 86400))
           \/ /\ body.kind = "no_events_day"
              /\ ToOrdinal(body.date) = ToOrdinal(start_datetime) + k

SevenDailyOutputs ==
    /\ Len(DailyPart) = 14
    /\ \A k \in 0..6 : DailyOutputOk(k)

WeekRunDone == pc = "done" /\ option = "2"

\* C7 as stated: whatever the fetch returned, a week audit emits exactly 7 daily
\* outputs, one per day from the start date to start date + 6 in ascending order,
\* each a daily report with denominator 86400 or a 'No events found' marker.
C7_SevenDailyOutputs_Original == WeekRunDone => SevenDailyOutputs

\* C7 as amended: when the fetch returned at least one event, the week audit emits
\* exactly those 7 daily outputs; when the fetch returned no event or failed, it
\* emits no daily output at all.
C7_SevenDailyOutputs ==
    WeekRunDone =>
        /\ ~not_events(events) => SevenDailyOutputs
        /\ not_events(events) =>
               \A i \in 1..Len(Printed) : Printed[i].kind \notin {"day", "no_events_day", "table"}

C7_Witness ==
    /\ WeekRunDone
    /\ start_datetime = DT(2024, 1, 30, 0, 0, 0)
    /\ Len(DailyPart) = 14
    /\ DailyPart[2].kind = "table" /\ Len(DailyPart[2].rows) = 2
    /\ DailyPart[4].kind = "no_events_day"
    /\ DailyPart[6].kind = "table"
    /\ DailyPart[13].date = <<2024, 2, 5>>

\* The scenario of C8: a one-day audit of 2024-01-30 whose fetch returned Standup
\* (09:00-10:00, no tags) and Coding (10:00-12:00, tagged Work).
C8_Scenario ==
    /\ pc = "done" /\ option = "1"
    /\ start_datetime = DT(2024, 1, 30, 0, 0, 0)
    /\ events = EventsList(<<Standup, Coding>>)

Percent(whole, d1, d2) == [negative |-> FALSE, whole |-> whole, decimals |-> <<d1, d2>>]

C8_Report ==
    /\ categories = <<Item(<<"Work">>, 7200), Item(<<"Standup">>, 3600)>>
    /\ Len(Printed) = 1
    /\ Printed[1].kind = "table"
    /\ Len(Printed[1].rows) = 2
    /\ Printed[1].rows[1].event_type = <<"Work">>
    /\ Printed[1].rows[2].event_type = <<"Standup">>
    /\ \A r \in 1..2 : Len(Printed[1].rows[r].percent_of_total.decimals) = 2

\* C8 as stated: the report is Work = 7200, Standup = 3600 in that order, and the
\* percentages are rendered as 16.67 and 8.33, each with two decimals.
C8_ScenarioPercentages_Original ==
    C8_Scenario =>
        /\ C8_Report
        /\ Printed[1].rows[1].percent_of_total = Percent(16, 6, 7)
        /\ Printed[1].rows[2].percent_of_total = Percent(8, 3, 3)

\* C8 as amended: the report is Work = 7200, Standup = 3600 in that order, and the
\* percentages, taken of the day window's 86399 seconds (00:00:00 to 23:59:59), are
\* rendered as 8.33 and 4.17, each with two decimals.
C8_ScenarioPercentages ==
    C8_Scenario =>
        /\ C8_Report
        /\ total_duration = <<86399>>
        /\ Printed[1].denominator = 86399
        /\ Printed[1].rows[1].percent_of_total = Percent(8, 3, 3)
        /\ Printed[1].rows[2].percent_of_total = Percent(4, 1, 7)

C8_Witness == C8_Scenario /\ Len(Printed) = 1 /\ calendar = {Standup, Coding}

NoEventsOutput ==
    (IF option = "2" THEN <<FlagLine(audit_first_tag_only)>> ELSE <<>>)
        \o <<NoEventsFound(start_datetime, end_datetime)>>

\* C9: when the fetch fails, query_events yields None and the run, in every mode,
\* goes from there straight to the end: it never categorizes, never prints a table,
\* never raises and never enters the week's loop; and what it has printed at the
\* end is the 'No events found' message, as after an empty fetch result.
C9_FetchFailureIsNoEvents ==
    /\ ~fetch_ok =>
           /\ events = EventsNone
           /\ pc \in {"queried", "done"}
           /\ categories = <<>>
           /\ cur_datetime = NoDatetime
    /\ (pc = "done" /\ (~fetch_ok \/ events = EventsList(<<>>))) =>
           Printed = NoEventsOutput

C9_Witness ==
    /\ pc = "done"
    /\ ~fetch_ok
    /\ option = "2"
    /\ Matching(calendar, time_min(start_datetime), time_max(end_datetime)) # {}

WindowResolved == pc \notin {"audit", "set_tag_option", "input"}

\* C10: every window the resolver produces, in day, week and range mode, has
\* start <= end.
C10_WindowStartNotAfterEnd ==
    WindowResolved => DatetimeLeq(start_datetime, end_datetime)

\* The part of C10 the code does satisfy: day and week windows have start <= end.
C10_DayAndWeekWindows ==
    (WindowResolved /\ option \in {"1", "2"}) => DatetimeLeq(start_datetime, end_datetime)

RECURSIVE RowsSum(_)
RowsSum(rows) == IF rows = <<>> THEN 0 ELSE Head(rows).seconds + RowsSum(Tail(rows))

TotalRowOk(t) ==
    LET row == t.total_row[1]
        sum == RowsSum(t.rows)
    IN  /\ Len(t.total_row) = 1
        /\ row.event_type = <<"Total">>
        /\ row.seconds = sum
        /\ row.duration = format_duration(sum)
        /\ row.percent_of_total = format_2f(PercentHundredths(sum, t.denominator))
        /\ \A r \in 1..Len(t.rows) :
               t.rows[r].percent_of_total
                   = format_2f(PercentHundredths(t.rows[r].seconds, t.denominator))

\* C11: a printed table ends with a 'Total' row if and only if first_tag_only is set;
\* the row shows the sum of the durations of the table's categories, and its
\* percentage is that sum over the denominator the category rows were taken of.
C11_TotalRowIffFirstTagOnly ==
    \A i \in TableIndexes :
        /\ (Printed[i].total_row # <<>>) <=> Truthy(audit_first_tag_only)
        /\ Printed[i].total_row # <<>> => TotalRowOk(Printed[i])

\* A day audit with first_tag_only set that printed Work 2:00 and Standup 1:00 and
\* then Total 3:00, 12.50 percent of the window.
C11_Witness ==
    /\ pc = "done" /\ option = "1"
    /\ Truthy(audit_first_tag_only)
    /\ Len(Printed) = 1
    /\ Printed[1].kind = "table"
    /\ Len(Printed[1].rows) = 2
    /\ Printed[1].total_row # <<>>
    /\ Printed[1].total_row[1].seconds = 10800
    /\ Printed[1].total_row[1].duration = [hours |-> 3, minutes |-> 0]
    /\ Printed[1].total_row[1].percent_of_total = Percent(12, 5, 0)

InSeq(x, seq) == \E i \in 1..Len(seq) : seq[i] = x

\* A pass of the week's loop is over: cur_events is the selection of the day before
\* cur_datetime.
DayPassDone ==
    /\ option = "2"
    /\ pc \in {"week_loop", "done"}
    /\ cur_datetime # NoDatetime
    /\ ToOrdinal(cur_datetime) > ToOrdinal(start_datetime)

\* C12: a fetched event is in the daily sub-report of day d if and only if the
\* calendar date of its start is d; so an event that started before the window (in
\* an earlier month, say) is in no daily sub-report.
C12_DailyReportHoldsEventsOfItsDate ==
    DayPassDone =>
        \A i \in 1..Len(events.items) :
            InSeq(events.items[i], cur_events)
                <=> ToOrdinal(events.items[i].start) = ToOrdinal(cur_datetime) - 1

\* The part of C12 the code does satisfy: no fetched event is selected for more than
\* one of the window's 7 days, and an event that starts on one of them is selected
\* for that day.
C12_AtMostOneDay ==
    (option = "2" /\ pc \in {"week_loop", "done"} /\ cur_datetime # NoDatetime) =>
        \A i \in 1..Len(events.items) :
            /\ Cardinality({k \in 0..6 :
                   on_day(events.items[i], timedelta_days(start_datetime, k))}) <= 1
            /\ \A k \in 0..6 :
                   ToOrdinal(events.items[i].start) = ToOrdinal(start_datetime) + k
                       => on_day(events.items[i], timedelta_days(start_datetime, k))

LastPrinted == Printed[Len(Printed)]

\* C13: print_analysis never gets an empty mapping.  Where a caller has an empty (or
\* no) event list it prints 'No events found' instead, for the window and for each
\* day of the week; and what a caller does hand over, the mapping of a non-empty
\* event list, is never empty, so max() never raises.
C13_PrintAnalysisNeverGetsEmptyMapping ==
    /\ pc # "ValueError"
    /\ pc = "print_analysis" => (~not_events(events) /\ categories # <<>>)
    /\ \A i \in TableIndexes : Printed[i].rows # <<>>
    /\ (pc = "done" /\ not_events(events)) => LastPrinted.kind = "no_events"
    /\ (DayPassDone /\ cur_events = <<>>) => LastPrinted.kind = "no_events_day"
    /\ (DayPassDone /\ cur_events # <<>>) =>
           (LastPrinted.kind = "table" /\ Len(LastPrinted.rows) >= 1)

\* The week's loop has just passed a day without events, after a day with some.
C13_Witness ==
    /\ pc = "week_loop"
    /\ DayPassDone
    /\ cur_events = <<>>
    /\ LastPrinted = NoEventsFoundDay(DT(2024, 1, 31, 0, 0, 0))
    /\ Cardinality(TableIndexes) = 2

WeekLength == total_seconds(end_datetime, start_datetime)

ReportIndexes == {i \in 1..Len(Printed) : Printed[i].kind # "flag"}

\* C14: a week audit queries the calendar once, for the whole window, before it
\* prints any report; the selection of each day is taken from that one result; the
\* whole-week table is printed first, its percentages taken of the window's length,
\* and only the tables after it are taken of 86400 seconds.
C14_WeekQueriesOnce ==
    option = "2" =>
        /\ Len(queries) <= 1
        /\ ReportIndexes # {} => Len(queries) = 1
        /\ Len(queries) = 1 =>
               /\ DatetimeLeq(queries[1].time_min, start_datetime)
               /\ DatetimeLeq(end_datetime, queries[1].time_max)
               /\ ToOrdinal(queries[1].time_max) - ToOrdinal(queries[1].time_min) = 6
        /\ DayPassDone => \A i \in 1..Len(cur_events) : InSeq(cur_events[i], events.items)
        /\ (pc = "print_analysis" \/ (pc = "week_loop" /\ cur_datetime = start_datetime)) =>
               total_duration = <<WeekLength>>
        /\ \A i \in TableIndexes :
               /\ i = SetMin(TableIndexes) => Printed[i].denominator = WeekLength
               /\ i # SetMin(TableIndexes) => Printed[i].denominator = SECS_IN_DAY
        /\ \A i \in 1..Len(Printed) :
               Printed[i].kind \in {"day", "no_events_day"} =>
                   (TableIndexes # {} /\ SetMin(TableIndexes) < i)

C14_Witness ==
    /\ WeekRunDone
    /\ queries = <<Query(DT(2024, 1, 31, 0, 0, 0), DT(2024, 2, 6, 23, 59, 59))>>
    /\ Cardinality(TableIndexes) = 2
    /\ Printed[SetMin(TableIndexes)].denominator = 604799
    /\ LastPrinted.kind = "no_events_day"

\* C15: whenever print_analysis computes a percentage the denominator has been set
\* and is strictly positive, in every mode and for every window the resolver
\* returns: the division never fails and no table is taken of a length <= 0.
C15_DenominatorPositive ==
    /\ pc # "ZeroDivisionError"
    /\ (pc = "print_analysis" /\ categories # <<>>) =>
           (total_duration # <<>> /\ total_duration[1] > 0)
    /\ \A i \in TableIndexes : Printed[i].denominator > 0

\* The part of C15 the code does satisfy: the denominator is never None when a
\* percentage is computed, and it is positive in day and week mode.
C15_DenominatorSet ==
    /\ pc # "TypeError" \/ events.none
    /\ (pc = "print_analysis" /\ categories # <<>>) => total_duration # <<>>
    /\ option \in {"1", "2"} =>
           (pc # "ZeroDivisionError" /\ \A i \in TableIndexes : Printed[i].denominator > 0)

Overlaps(ev, lo, hi) == DatetimeLt(lo, ev.end) /\ DatetimeLt(ev.start, hi)

\* C16: in every mode the interval sent to the calendar is the resolved window
\* [start, end] whose length is the denominator, so that no event lying wholly
\* outside the window is fetched and aggregated.
C16_QueryIntervalIsWindow ==
    Len(queries) >= 1 =>
        /\ queries[1] = Query(start_datetime, end_datetime)
        /\ ~events.none =>
               \A i \in 1..Len(events.items) :
                   Overlaps(events.items[i], start_datetime, end_datetime)

\* The part of C16 the code does satisfy: in day and week mode the interval sent is
\* the window.
C16_DayAndWeekIntervals ==
    (Len(queries) >= 1 /\ option \in {"1", "2"}) =>
        /\ queries[1] = Query(start_datetime, end_datetime)
        /\ ~events.none =>
               \A i \in 1..Len(events.items) :
                   Overlaps(events.items[i], start_datetime, end_datetime)

====
